---- MODULE Spec2Model ----
(***************************************************************************)
(* Model of the spec-skills-generator analysis tools:                      *)
(*   - the drift comparator  (check-spec-drift-example.py)                 *)
(*   - the project discovery (discover_project.py)                         *)
(*                                                                         *)
(* Text is modelled as a sequence of lines, a line as a sequence of        *)
(* tokens.  The tokens "|", "-", " ", "#", ".py" and the letters are the   *)
(* characters the code inspects one by one; a heading text that the code   *)
(* only ever matches as a whole against a regular expression is one token. *)
(* A regular expression used with re.search is modelled by the set of      *)
(* tokens it matches.                                                      *)
(***************************************************************************)
EXTENDS Integers, Sequences, FiniteSets, TLC

VARIABLES
    pc,               \* position of the running program
    \* ---- _count_table_rows ----
    text,             \* the text being scanned
    section_pattern,  \* regular expression: the set of tokens it matches
    stop_pattern,
    pos,              \* index of the next line of text.splitlines()
    in_section,
    in_table,
    count,
    \* ---- drift comparator: main() ----
    fs,               \* files, directories and clock the run reads
    warnings,
    out,              \* the lines printed so far
    overview_text,
    technical_text,
    lambda_dirs,
    layer_modules,
    dynamodb_tables,
    api_routes,
    spec_counts,      \* spec_lambda_count, spec_layer_count, spec_dynamodb_count
    today,
    spec_idx,         \* position in [OVERVIEW, BUSINESS, TECHNICAL]
    exit_code,
    \* ---- discovery: _extract_headings ----
    md_file,          \* the Markdown file: readable or not, and its text
    hpos,             \* index of the next line of text.splitlines()
    headings,
    calls,            \* calls of _extract_headings made on md_file
    prev_headings,    \* what the previous call returned
    \* ---- discovery: discover_source_code ----
    tree,             \* the files and directories below root
    spos,             \* index of the next entry of sorted(root.iterdir())
    source_dirs,
    root,             \* the parts of the resolved root path
    lang_counts       \* language label -> files counted so far

tableVars == <<text, section_pattern, stop_pattern, pos, in_section, in_table, count>>

mainVars ==
    <<fs, warnings, out, overview_text, technical_text, lambda_dirs, layer_modules,
      dynamodb_tables, api_routes, spec_counts, today, spec_idx, exit_code>>

discVars ==
    <<md_file, hpos, headings, calls, prev_headings, tree, spos, source_dirs,
      root, lang_counts>>

vars == <<pc, tableVars, mainVars, discVars>>

(***************************************************************************)
(* Bounds of the model                                                     *)
(***************************************************************************)
MaxLines == 4

(***************************************************************************)
(* String helpers (str methods of Python on token sequences)               *)
(***************************************************************************)
WS == {" "}

RECURSIVE lstrip_ws(_)
lstrip_ws(s) ==
    IF s # <<>> /\ Head(s) \in WS THEN lstrip_ws(Tail(s)) ELSE s

RECURSIVE rstrip_ws(_)
rstrip_ws(s) ==
    IF s # <<>> /\ s[Len(s)] \in WS THEN rstrip_ws(SubSeq(s, 1, Len(s) - 1)) ELSE s

\* str.strip()
strip(s) == rstrip_ws(lstrip_ws(s))

\* str.startswith(prefix)
startswith(s, prefix) ==
    Len(s) >= Len(prefix) /\ SubSeq(s, 1, Len(prefix)) = prefix

\* `sub in s` for strings
contains(s, sub) ==
    \E k \in 0..(Len(s) - Len(sub)) : SubSeq(s, k + 1, k + Len(sub)) = sub

\* str.splitlines(): the pieces between "\n" tokens (no empty last piece)
RECURSIVE split_from(_, _, _)
split_from(s, k, cur) ==
    IF k > Len(s) THEN (IF cur = <<>> THEN <<>> ELSE <<cur>>)
    ELSE IF s[k] = "\n" THEN <<cur>> \o split_from(s, k + 1, <<>>)
    ELSE split_from(s, k + 1, Append(cur, s[k]))

splitlines(s) == split_from(s, 1, <<>>)

\* "\n".join(parts)
RECURSIVE join_nl(_)
join_nl(parts) ==
    IF parts = <<>> THEN <<>>
    ELSE IF Len(parts) = 1 THEN parts[1]
    ELSE parts[1] \o <<"\n">> \o join_nl(Tail(parts))

\* re.search(pattern, line): some token of the line is matched by the pattern
re_search(pattern, line) == \E k \in DOMAIN line : line[k] \in pattern

\* re.match(r"^\|[\s\-|]+\|$", stripped)
is_separator(stripped) ==
    /\ Len(stripped) >= 3
    /\ stripped[1] = "|"
    /\ stripped[Len(stripped)] = "|"
    /\ \A k \in 2..(Len(stripped) - 1) : stripped[k] \in {" ", "-", "|"}

(***************************************************************************)
(* _count_table_rows: one iteration of `for line in text.splitlines()`     *)
(* on the loop state st = [in_section, in_table, count, brk].              *)
(***************************************************************************)
scan_line(st, line, section_pat, stop_pat) ==
    IF ~st.in_section
    THEN IF re_search(section_pat, line)
         THEN [st EXCEPT !.in_section = TRUE]
         ELSE st
    ELSE IF re_search(stop_pat, line)
    THEN [st EXCEPT !.brk = TRUE]
    ELSE LET stripped == strip(line) IN
         IF startswith(stripped, <<"|">>) /\ ~is_separator(stripped)
         THEN IF st.in_table
              THEN [st EXCEPT !.count = st.count + 1]
              ELSE [st EXCEPT !.in_table = TRUE]
         ELSE IF st.in_table /\ ~startswith(stripped, <<"|">>)
              THEN [st EXCEPT !.brk = TRUE]
              ELSE st

scan_init == [in_section |-> FALSE, in_table |-> FALSE, count |-> 0, brk |-> FALSE]

RECURSIVE scan_from(_, _, _, _, _)
scan_from(st, lines, k, section_pat, stop_pat) ==
    IF k > Len(lines) \/ st.brk
    THEN st
    ELSE scan_from(scan_line(st, lines[k], section_pat, stop_pat),
                   lines, k + 1, section_pat, stop_pat)

\* _count_table_rows(text, section_pattern, stop_pattern)
count_table_rows(txt, section_pat, stop_pat) ==
    scan_from(scan_init, splitlines(txt), 1, section_pat, stop_pat).count

(***************************************************************************)
(* Specification SpecTable: _count_table_rows run line by line             *)
(***************************************************************************)
HeadingS == <<"#S">>
HeadingT == <<"#T">>
RowLine == <<"|", "x", "|">>
SepClosed == <<"|", "-", "|">>
SepPadded == <<" ", "|", "-", "|", " ">>
SepOpen == <<"|", "-", "|", "-">>
BarLine == <<"|">>
ProseLine == <<"x">>

LinePool ==
    {HeadingS, HeadingT, RowLine, SepClosed, SepPadded, SepOpen, BarLine, ProseLine}

RECURSIVE SeqsUpTo(_, _)
SeqsUpTo(S, n) ==
    IF n = 0 THEN {<<>>}
    ELSE LET shorter == SeqsUpTo(S, n - 1) IN
         shorter \cup {Append(s, x) : s \in {t \in shorter : Len(t) = n - 1}, x \in S}

PatS == {"#S"}
PatT == {"#T"}

\* the drift comparator is not running
MainIdle ==
    /\ fs = <<>>
    /\ warnings = 0
    /\ out = <<>>
    /\ overview_text = <<>>
    /\ technical_text = <<>>
    /\ lambda_dirs = <<>>
    /\ layer_modules = <<>>
    /\ dynamodb_tables = <<>>
    /\ api_routes = <<>>
    /\ spec_counts = <<>>
    /\ today = 0
    /\ spec_idx = 0
    /\ exit_code = -1

\* the discovery script is not running
DiscoveryIdle ==
    /\ md_file = <<>>
    /\ hpos = 0
    /\ headings = <<>>
    /\ calls = 0
    /\ prev_headings = <<>>
    /\ tree = {}
    /\ spos = 0
    /\ source_dirs = <<>>
    /\ root = <<>>
    /\ lang_counts = <<>>

InitTable ==
    /\ MainIdle
    /\ DiscoveryIdle
    /\ pc = "scan"
    /\ text \in {join_nl(ls) : ls \in SeqsUpTo(LinePool, MaxLines)}
    /\ section_pattern = PatS
    /\ stop_pattern = PatT
    /\ pos = 1
    /\ in_section = FALSE
    /\ in_table = FALSE
    /\ count = 0

\* one iteration of the for loop (lines 101-115)
ScanLine ==
    /\ pc = "scan"
    /\ pos <= Len(splitlines(text))
    /\ LET st == scan_line([in_section |-> in_section, in_table |-> in_table,
                            count |-> count, brk |-> FALSE],
                           splitlines(text)[pos], section_pattern, stop_pattern)
       IN /\ in_section' = st.in_section
          /\ in_table' = st.in_table
          /\ count' = st.count
          /\ pos' = pos + 1
          /\ pc' = IF st.brk THEN "returned" ELSE "scan"
    /\ UNCHANGED <<text, section_pattern, stop_pattern>>
    /\ UNCHANGED <<mainVars, discVars>>

\* the loop is exhausted: return count (line 116)
ScanEnd ==
    /\ pc = "scan"
    /\ pos > Len(splitlines(text))
    /\ pc' = "returned"
    /\ UNCHANGED <<tableVars, mainVars, discVars>>

NextTable == ScanLine \/ ScanEnd

SpecTable == InitTable /\ [][NextTable]_vars

(***************************************************************************)
(* Claims about _count_table_rows                                          *)
(***************************************************************************)
\* a line made solely of '|', '-' and whitespace
SolelySepChars(line) == \A k \in DOMAIN line : line[k] \in {"|", "-", " "}

\* a table row of markdown: the line starts with '|'
PipeLine(line) == startswith(strip(line), <<"|">>)

\* a dash-separator row: a pipe line of dashes, pipes and blanks with a dash
DashSeparatorRow(line) ==
    PipeLine(line) /\ SolelySepChars(line) /\ \E k \in DOMAIN line : line[k] = "-"

\* a header or data row: a pipe line with some cell content
ContentRow(line) == PipeLine(line) /\ ~SolelySepChars(line)

\* line p matches start_pattern (no earlier line does), and is followed by a
\* table of one header row, one dash-separator row and n data rows
TableAt(ls, p, n) ==
    /\ p \in DOMAIN ls
    /\ p + 2 + n <= Len(ls)
    /\ re_search(section_pattern, ls[p])
    /\ \A q \in 1..(p - 1) : ~re_search(section_pattern, ls[q])
    /\ ContentRow(ls[p + 1])
    /\ DashSeparatorRow(ls[p + 2])
    /\ \A q \in (p + 3)..(p + 2 + n) : ContentRow(ls[q])
    /\ (p + 3 + n <= Len(ls) => ~PipeLine(ls[p + 3 + n]))

\* C2: _count_table_rows returns exactly N on a text holding a line matching
\* start_pattern followed by a table of one header row, one dash-separator
\* row and N data rows (N >= 0), and returns 0 when no line matches
\* start_pattern.
C2_CountIsN ==
    pc = "returned" =>
        LET ls == splitlines(text) IN
        /\ \A p \in DOMAIN ls : \A n \in 0..Len(ls) : TableAt(ls, p, n) => count = n
        /\ ((\A p \in DOMAIN ls : ~re_search(section_pattern, ls[p])) => count = 0)

\* C3: inside the section, a line made solely of '|', '-' and whitespace is
\* a separator: scanning it neither counts a data row nor consumes the table
\* header, wherever it stands and whether or not it ends with '|'.
C3_SeparatorIgnored ==
    [][(/\ pc = "scan"
        /\ pos <= Len(splitlines(text))
        /\ in_section
        /\ SolelySepChars(splitlines(text)[pos]))
       => (count' = count /\ in_table' = in_table)]_vars

\* the index of the first line matching start_pattern, 0 when there is none
SectionStart(ls) ==
    IF \E p \in DOMAIN ls : re_search(section_pattern, ls[p])
    THEN CHOOSE p \in DOMAIN ls :
            /\ re_search(section_pattern, ls[p])
            /\ \A q \in 1..(p - 1) : ~re_search(section_pattern, ls[q])
    ELSE 0

\* a table has started before line q of the section: its header, a pipe line
\* that is not a separator, stands between the section heading and q
TableStartedBefore(ls, q) ==
    \E h \in (SectionStart(ls) + 1)..(q - 1) : ContentRow(ls[h])

\* line q ends the scan: it matches stop_pattern, or it does not start with
\* '|' and follows an already-started table
EndsScan(ls, q) ==
    \/ re_search(stop_pattern, ls[q])
    \/ ~PipeLine(ls[q]) /\ TableStartedBefore(ls, q)

\* the first line of the section that ends the scan, Len(ls) + 1 when the
\* section is never entered or runs to the end of the document
StopPoint(ls) ==
    LET s == SectionStart(ls)
        ends == {q \in DOMAIN ls : s > 0 /\ q > s /\ EndsScan(ls, q)}
    IN IF ends = {} THEN Len(ls) + 1
       ELSE CHOOSE q \in ends : \A r \in ends : q <= r

\* C11: once the section is entered the scan stops at the first line that
\* matches stop_pattern or that does not start with '|' after a table has
\* started, and not before: lines ahead of the first table do not stop it,
\* no line beyond the stopping line is scanned, and only pipe lines ahead
\* of the stopping line are counted.
C11_ScanStopsAtFirstEnd ==
    LET ls == splitlines(text)
        stop == StopPoint(ls)
    IN /\ pos <= stop + 1
       /\ pos <= Len(ls) + 1
       /\ (pc = "returned" => pos = IF stop <= Len(ls) THEN stop + 1 ELSE Len(ls) + 1)
       /\ count <= Cardinality({q \in (SectionStart(ls) + 1)..(stop - 1) : PipeLine(ls[q])})

(***************************************************************************)
(* Drift comparator: module constants (lines 33-44) and the regular        *)
(* expressions of the customization points, each the set of tokens it      *)
(* matches.                                                                *)
(***************************************************************************)
SpecFiles == <<"01_overview.md", "02_business_spec.md", "03_technical_spec.md">>
OVERVIEW == SpecFiles[1]
BUSINESS == SpecFiles[2]
TECHNICAL == SpecFiles[3]

IGNORED_FILES == {<<"__init__", ".", "p", "y">>}
IGNORED_DIRS == {<<"__pycache__">>, <<"__init__", ".", "p", "y">>}

H_Api == "#### API Endpoint Integration"
H_Batch == "#### Monthly Rank Batch"
H_Layer == "### 3.2 Shared Layer Modules"
H_Dynamo == "### 3.3 DynamoDB Tables"
H_Next == "### 3.4 API Gateway"
H_Routes == {"### 1.1 POST /rank", "### 1.2 GET /rank", "### 1.3 POST /batch",
             "### 1.4 GET /health", "### 1.5 GET /meta"}

PatApi == {H_Api}          \* r"####\s+API\s+Endpoint\s+Integration"
PatBatch == {H_Batch}      \* r"####\s+Monthly\s+Rank\s+Batch"
Pat32 == {H_Layer}         \* r"###\s+3\.2"
PatLayer == {H_Layer}      \* r"###\s+3\.2\s+Shared\s+Layer\s+Modules"
Pat33 == {H_Dynamo}        \* r"###\s+3\.3"
PatDynamo == {H_Dynamo}    \* r"###\s+3\.3\s+DynamoDB"
Pat34 == {H_Next}          \* r"###\s+3\.4"
PatRoute == H_Routes       \* r"###\s+1\.\d+\s+(?:POST|GET)\s+/"
PatDynamoRes == {"resource aws_dynamodb_table"}
PatRouteRes == {"resource aws_apigatewayv2_route"}

\* re.findall(pattern, text): the matches in order
re_findall(pattern, txt) == SelectSeq(txt, LAMBDA t : t \in pattern)

(***************************************************************************)
(* sorted(): Python's order of strings                                     *)
(***************************************************************************)
TokRank(t) ==
    CASE t = "." -> 1
      [] t = "README" -> 2
      [] t = "__init__" -> 3
      [] t = "__pycache__" -> 4
      [] t = "a" -> 5
      [] t = "app" -> 6
      [] t = "b" -> 7
      [] t = "build" -> 8
      [] t = "c" -> 9
      [] t = "d" -> 10
      [] t = "fetchRank" -> 11
      [] t = "g" -> 12
      [] t = "git" -> 13
      [] t = "h" -> 14
      [] t = "lib" -> 15
      [] t = "main" -> 16
      [] t = "p" -> 17
      [] t = "y" -> 18
      [] OTHER -> 19

RECURSIVE str_less(_, _)
str_less(a, b) ==
    IF b = <<>> THEN FALSE
    ELSE IF a = <<>> THEN TRUE
    ELSE IF Head(a) = Head(b) THEN str_less(Tail(a), Tail(b))
    ELSE TokRank(Head(a)) < TokRank(Head(b))

RECURSIVE sorted(_)
sorted(S) ==
    IF S = {} THEN <<>>
    ELSE LET least == CHOOSE x \in S : \A y \in S \ {x} : str_less(x, y)
         IN <<least>> \o sorted(S \ {least})

\* str.endswith(suffix)
endswith(s, suffix) ==
    Len(s) >= Len(suffix) /\ SubSeq(s, Len(s) - Len(suffix) + 1, Len(s)) = suffix

DotPy == <<".", "p", "y">>

\* name.replace(".py", "")
RECURSIVE replace_py(_)
replace_py(s) ==
    IF s = <<>> THEN <<>>
    ELSE IF startswith(s, DotPy) THEN replace_py(SubSeq(s, Len(DotPy) + 1, Len(s)))
    ELSE <<Head(s)>> \o replace_py(Tail(s))

(***************************************************************************)
(* The functions of the drift comparator                                   *)
(***************************************************************************)
\* variant of _read: a file that does not exist reads as an empty text
read_lenient(path) == [exists |-> TRUE, content |-> fs.files[path].content]

\* _read(path): the file, or an OSError when it does not exist
read(path) == fs.files[path]

\* _count_lambda_dirs()
count_lambda_dirs ==
    sorted({d.name : d \in {e \in fs.lambda_functions :
                                e.is_dir /\ e.name \notin IGNORED_DIRS}})

\* _count_layer_modules()
count_layer_modules ==
    sorted({f.name : f \in {e \in fs.lambda_layer :
                                endswith(e.name, DotPy) /\ e.name \notin IGNORED_FILES}})

\* _count_dynamodb_tables_in_terraform()
count_dynamodb_tables_in_terraform ==
    re_findall(PatDynamoRes, read("terraform/dynamodb.tf").content)

\* _count_api_routes_in_terraform()
count_api_routes_in_terraform ==
    re_findall(PatRouteRes, read("terraform/api_gateway.tf").content)

\* _count_spec_lambda_functions(overview_text)
count_spec_lambda_functions(txt) ==
    count_table_rows(txt, PatApi, PatBatch) + count_table_rows(txt, PatBatch, Pat32)

\* _count_spec_layer_modules(overview_text)
count_spec_layer_modules(txt) == count_table_rows(txt, PatLayer, Pat33)

\* _count_spec_dynamodb_tables(overview_text)
count_spec_dynamodb_tables(txt) == count_table_rows(txt, PatDynamo, Pat34)

\* the name looked up in the spec texts (line 167)
search_name(name) == replace_py(name)

\* _find_missing_in_spec(names, *spec_texts)
find_missing_in_spec(names, spec_texts) ==
    LET combined == join_nl(spec_texts)
    IN SelectSeq(names, LAMBDA name : ~contains(combined, search_name(name)))

(***************************************************************************)
(* Dates: datetime values are counted in ticks, TicksPerDay to a day       *)
(***************************************************************************)
TicksPerDay == 2
ThresholdDays == 30

\* the calendar: the day number of a valid YYYY-MM-DD
Calendar ==
    [d \in {"2025-12-31", "2026-01-01", "2026-01-02", "2026-01-31"} |->
        CASE d = "2025-12-31" -> 0
          [] d = "2026-01-01" -> 1
          [] d = "2026-01-02" -> 2
          [] d = "2026-01-31" -> 31]

\* what \d{4}-\d{2}-\d{2} matches
DateShaped == DOMAIN Calendar \cup {"2026-02-30"}

\* the first token after position k that is not whitespace (\s*)
RECURSIVE skip_ws(_, _)
skip_ws(txt, k) ==
    IF k <= Len(txt) /\ txt[k] \in {" ", "\n"} THEN skip_ws(txt, k + 1) ELSE k

\* re.search(r"Last verified:\s*(\d{4}-\d{2}-\d{2})", spec_text): group(1)
verified_matches(txt) ==
    {k \in DOMAIN txt :
        /\ txt[k] = "Last verified:"
        /\ skip_ws(txt, k + 1) <= Len(txt)
        /\ txt[skip_ws(txt, k + 1)] \in DateShaped}

\* datetime.strptime(s, "%Y-%m-%d"): midnight of that day
strptime(s) == Calendar[s] * TicksPerDay

\* _parse_last_verified_date(spec_text):
\*   [kind |-> "none"] | [kind |-> "error"] (ValueError) | [kind |-> "date", at |-> ticks]
parse_last_verified_date(txt) ==
    LET ms == verified_matches(txt) IN
    IF ms = {} THEN [kind |-> "none", at |-> 0]
    ELSE LET k == CHOOSE x \in ms : \A y \in ms : x <= y
             s == txt[skip_ws(txt, k + 1)]
         IN IF s \in DOMAIN Calendar
            THEN [kind |-> "date", at |-> strptime(s)]
            ELSE [kind |-> "error", at |-> 0]

\* timedelta(days=30)
threshold == ThresholdDays * TicksPerDay

\* today - last_verified > threshold (line 274)
is_stale(now, last_verified) == now - last_verified > threshold

(***************************************************************************)
(* The project a run reads: documents, directories, terraform files, clock *)
(***************************************************************************)
MaxUnits == 2      \* code-side components of one category
MaxRows == 3       \* rows of one table of the overview document

LambdaNames == << <<"fetchRank">>, <<"a", "b">>, <<"g">>, <<"h">> >>
ModuleNames ==
    << <<"d", ".", "p", "y">>,
       <<"a", ".", "p", "y", "b", ".", "p", "y">>,
       <<"c", ".", "p", "y">>,
       <<"h", ".", "p", "y">> >>
RouteHeadings ==
    <<"### 1.1 POST /rank", "### 1.2 GET /rank", "### 1.3 POST /batch",
      "### 1.4 GET /health", "### 1.5 GET /meta">>

\* a file name without its last extension
Stem(name) ==
    IF endswith(name, DotPy) THEN SubSeq(name, 1, Len(name) - Len(DotPy)) ELSE name

Prefix(seq, n) == SubSeq(seq, 1, IF n < Len(seq) THEN n ELSE Len(seq))
Range(seq) == {seq[k] : k \in DOMAIN seq}
Rep(n, x) == [k \in 1..n |-> x]

TableSection(heading, rows) ==
    << <<heading>>, <<"|", "Name", "|">>, <<"|", "-", "|">> >>
    \o [k \in 1..Len(rows) |-> <<"|">> \o rows[k] \o <<"|">>]

VerifiedLine(d) == IF d = "" THEN <<>> ELSE << <<"Last verified:", " ", d>> >>

OverviewText(w) ==
    join_nl(TableSection(H_Api, w.api_rows)
            \o TableSection(H_Batch, w.batch_rows)
            \o TableSection(H_Layer, w.layer_rows)
            \o TableSection(H_Dynamo, Rep(w.dyn_rows, <<"tbl">>))
            \o << <<H_Next>> >>
            \o w.overview_notes
            \o VerifiedLine(w.dates[1]))

BusinessText(w) == join_nl(<< <<"rules">> >> \o VerifiedLine(w.dates[2]))

TechnicalText(w) ==
    join_nl([k \in 1..w.routes |-> <<RouteHeadings[k]>>]
            \o w.technical_notes
            \o VerifiedLine(w.dates[3]))

TerraformText(resource, n) ==
    <<"resource aws_iam_role", "\n">> \o
    join_nl([k \in 1..n |-> <<resource>>])

File(present, content) == [exists |-> present, content |-> IF present THEN content ELSE <<>>]

JunkDirs == {[name |-> <<"__pycache__">>, is_dir |-> TRUE],
             [name |-> <<"README">>, is_dir |-> FALSE]}
JunkFiles == {[name |-> <<"__init__", ".", "p", "y">>, is_dir |-> FALSE],
              [name |-> <<"README">>, is_dir |-> FALSE]}

\* the project described by the parameters w
World(w) ==
    [params |-> w,
     files |->
        [f \in {OVERVIEW, BUSINESS, TECHNICAL,
                "terraform/dynamodb.tf", "terraform/api_gateway.tf"} |->
            CASE f = OVERVIEW -> File(w.exists[1], OverviewText(w))
              [] f = BUSINESS -> File(w.exists[2], BusinessText(w))
              [] f = TECHNICAL -> File(w.exists[3], TechnicalText(w))
              [] f = "terraform/dynamodb.tf" ->
                    File(TRUE, TerraformText("resource aws_dynamodb_table", w.tables))
              [] f = "terraform/api_gateway.tf" ->
                    File(TRUE, TerraformText("resource aws_apigatewayv2_route", w.api))],
     lambda_functions |->
        {[name |-> n, is_dir |-> TRUE] : n \in w.dirs}
        \cup (IF w.junk THEN JunkDirs ELSE {}),
     lambda_layer |->
        {[name |-> n, is_dir |-> FALSE] : n \in w.mods}
        \cup (IF w.junk THEN JunkFiles ELSE {}),
     now |-> Calendar["2026-01-31"] * TicksPerDay + w.tick]

\* a project in which spec and code agree and every date is fresh
BaseWorld ==
    [dirs |-> {LambdaNames[1]}, mods |-> {ModuleNames[1]}, junk |-> FALSE,
     tables |-> 1, api |-> 1,
     api_rows |-> <<LambdaNames[1]>>, batch_rows |-> <<>>,
     layer_rows |-> <<Stem(ModuleNames[1])>>, dyn_rows |-> 1, routes |-> 1,
     overview_notes |-> <<>>, technical_notes |-> <<>>,
     dates |-> <<"2026-01-02", "2026-01-02", "2026-01-02">>,
     exists |-> <<TRUE, TRUE, TRUE>>, tick |-> 0]

\* the same, with one table row too many, one directory the documents do not
\* name and one document never verified
DriftedWorld ==
    [BaseWorld EXCEPT !.dyn_rows = 2,
                      !.dirs = Range(Prefix(LambdaNames, 2)),
                      !.dates = <<"2026-01-02", "", "2026-01-02">>]

Backgrounds == {BaseWorld, DriftedWorld}

VerifiedDates == {"", "2025-12-31", "2026-01-01", "2026-01-02", "2026-02-30"}

\* lambda directories and shared modules against their tables
UnitWorlds ==
    {[BaseWorld EXCEPT !.dirs = Range(Prefix(LambdaNames, nl)),
                       !.api_rows = Prefix(LambdaNames, na),
                       !.batch_rows = Rep(nb, <<"batch">>),
                       !.mods = Range(Prefix(ModuleNames, nm)),
                       !.layer_rows = [k \in 1..nr |-> Stem(Prefix(ModuleNames, nr)[k])],
                       !.junk = j] :
        nl \in 0..MaxUnits, na \in 0..MaxRows, nb \in 0..1,
        nm \in 0..MaxUnits, nr \in 0..MaxRows, j \in BOOLEAN}

\* terraform resources against the DynamoDB table and the route headings
ResourceWorlds ==
    {[BaseWorld EXCEPT !.tables = nd, !.dyn_rows = rd, !.api = na, !.routes = nr] :
        nd \in 0..MaxUnits, rd \in 0..MaxRows, na \in 0..MaxUnits, nr \in 0..MaxRows}

NoteLines == {<<"x", "a", "b", "x">>, <<"a", ".", "p", "y", "b">>, <<"d">>}

\* names against what the documents mention
NameWorlds ==
    {[b EXCEPT !.dirs = Range(Prefix(LambdaNames, nl)),
               !.mods = Range(Prefix(ModuleNames, nm)),
               !.layer_rows = <<>>,
               !.technical_notes = IF inTech THEN sorted(notes) ELSE <<>>,
               !.overview_notes = IF inTech THEN <<>> ELSE sorted(notes)] :
        b \in Backgrounds, nl \in 0..MaxUnits, nm \in 0..MaxUnits,
        notes \in SUBSET NoteLines, inTech \in BOOLEAN}

\* verification dates against the clock
DateWorlds ==
    {[b EXCEPT !.dates = <<d1, d2, d3>>, !.tick = t] :
        b \in Backgrounds, d1 \in VerifiedDates, d2 \in VerifiedDates,
        d3 \in VerifiedDates, t \in 0..(TicksPerDay - 1)}

\* documents that do not exist
MissingWorlds ==
    {[b EXCEPT !.exists = <<e1, e2, e3>>] :
        b \in Backgrounds, e1 \in BOOLEAN, e2 \in BOOLEAN, e3 \in BOOLEAN}

Worlds == UnitWorlds \cup ResourceWorlds \cup NameWorlds \cup DateWorlds \cup MissingWorlds

(***************************************************************************)
(* Specification SpecMain: one run of main() (lines 191-287)               *)
(***************************************************************************)
\* a printed line
Printed(kind, subject, name, code, spec) ==
    [kind |-> kind, subject |-> subject, name |-> name, code |-> code, spec |-> spec]

\* the not-running state of _count_table_rows
TableIdle ==
    /\ text = <<>>
    /\ section_pattern = {}
    /\ stop_pattern = {}
    /\ pos = 0
    /\ in_section = FALSE
    /\ in_table = FALSE
    /\ count = 0

InitMain ==
    /\ TableIdle
    /\ DiscoveryIdle
    /\ pc = "main"
    /\ fs \in {World(w) : w \in Worlds}
    /\ warnings = 0
    /\ out = <<>>
    /\ overview_text = <<>>
    /\ technical_text = <<>>
    /\ lambda_dirs = <<>>
    /\ layer_modules = <<>>
    /\ dynamodb_tables = <<>>
    /\ api_routes = <<>>
    /\ spec_counts = <<>>
    /\ today = 0
    /\ spec_idx = 0
    /\ exit_code = -1

\* lines 192-196: banner, warnings = 0, overview_text = _read(OVERVIEW)
ReadOverview ==
    /\ pc = "main"
    /\ out' = Append(out, Printed("TITLE", "", <<>>, 0, 0))
    /\ warnings' = 0
    /\ IF read(OVERVIEW).exists
       THEN overview_text' = read(OVERVIEW).content /\ pc' = "read_technical"
       ELSE overview_text' = overview_text /\ pc' = "raised"
    /\ UNCHANGED <<fs, technical_text, lambda_dirs, layer_modules, dynamodb_tables,
                   api_routes, spec_counts, today, spec_idx, exit_code, tableVars, discVars>>

\* line 197: technical_text = _read(TECHNICAL)
ReadTechnical ==
    /\ pc = "read_technical"
    /\ IF read(TECHNICAL).exists
       THEN technical_text' = read(TECHNICAL).content /\ pc' = "count_code"
       ELSE technical_text' = technical_text /\ pc' = "raised"
    /\ UNCHANGED <<fs, warnings, out, overview_text, lambda_dirs, layer_modules,
                   dynamodb_tables, api_routes, spec_counts, today, spec_idx,
                   exit_code, tableVars, discVars>>

\* lines 200-207: the code-side lists and the spec-side counts
CountComponents ==
    /\ pc = "count_code"
    /\ lambda_dirs' = count_lambda_dirs
    /\ layer_modules' = count_layer_modules
    /\ dynamodb_tables' = count_dynamodb_tables_in_terraform
    /\ api_routes' = count_api_routes_in_terraform
    /\ spec_counts' = [lambda |-> count_spec_lambda_functions(overview_text),
                       layer |-> count_spec_layer_modules(overview_text),
                       dynamodb |-> count_spec_dynamodb_tables(overview_text)]
    /\ pc' = "check_lambda"
    /\ UNCHANGED <<fs, warnings, out, overview_text, technical_text, today, spec_idx,
                   exit_code, tableVars, discVars>>

\* variant of count_check: the WARN branch forgets `warnings += 1`
count_check_uncounted(category, code_count, spec_count) ==
    IF code_count = spec_count
    THEN [line |-> Printed("OK", category, <<>>, code_count, spec_count), warn |-> 0]
    ELSE [line |-> Printed("WARN", category, <<>>, code_count, spec_count), warn |-> 0]

\* variant of count_check: compares with <= instead of ==
count_check_atmost(category, code_count, spec_count) ==
    IF code_count <= spec_count
    THEN [line |-> Printed("OK", category, <<>>, code_count, spec_count), warn |-> 0]
    ELSE [line |-> Printed("WARN", category, <<>>, code_count, spec_count), warn |-> 1]

\* the if/else of one count check: the line printed and the warnings added
count_check(category, code_count, spec_count) ==
    IF code_count = spec_count
    THEN [line |-> Printed("OK", category, <<>>, code_count, spec_count), warn |-> 0]
    ELSE [line |-> Printed("WARN", category, <<>>, code_count, spec_count), warn |-> 1]

CheckStep(here, there, category, code_count, spec_count) ==
    /\ pc = here
    /\ LET r == count_check(category, code_count, spec_count)
       IN /\ out' = Append(out, r.line)
          /\ warnings' = warnings + r.warn
    /\ pc' = there
    /\ UNCHANGED <<fs, overview_text, technical_text, lambda_dirs, layer_modules,
                   dynamodb_tables, api_routes, spec_counts, today, spec_idx,
                   exit_code, tableVars, discVars>>

\* lines 209-217
CheckLambda ==
    CheckStep("check_lambda", "check_layer", "Lambda functions",
              Len(lambda_dirs), spec_counts.lambda)

\* lines 219-227
CheckLayer ==
    CheckStep("check_layer", "check_dynamodb", "Shared modules",
              Len(layer_modules), spec_counts.layer)

\* lines 229-237
CheckDynamodb ==
    CheckStep("check_dynamodb", "check_api", "DynamoDB tables",
              Len(dynamodb_tables), spec_counts.dynamodb)

\* lines 239-249
CheckApi ==
    CheckStep("check_api", "coverage", "API routes",
              Len(api_routes), Len(re_findall(PatRoute, technical_text)))

\* lines 251-262: file name coverage
Coverage ==
    /\ pc = "coverage"
    /\ LET missing_lambdas ==
               find_missing_in_spec(lambda_dirs, <<technical_text, overview_text>>)
           missing_modules ==
               find_missing_in_spec(layer_modules, <<technical_text, overview_text>>)
       IN IF missing_lambdas # <<>> \/ missing_modules # <<>>
          THEN /\ out' = out \o <<Printed("MISSING_HEADER", "", <<>>, 0, 0)>>
                         \o [k \in 1..Len(missing_lambdas) |->
                               Printed("MISSING", "lambda_functions", missing_lambdas[k], 0, 0)]
                         \o [k \in 1..Len(missing_modules) |->
                               Printed("MISSING", "lambda_layer/python", missing_modules[k], 0, 0)]
               /\ warnings' = warnings + Len(missing_lambdas) + Len(missing_modules)
          ELSE UNCHANGED <<out, warnings>>
    /\ today' = fs.now
    /\ spec_idx' = 1
    /\ pc' = "freshness"
    /\ UNCHANGED <<fs, overview_text, technical_text, lambda_dirs, layer_modules,
                   dynamodb_tables, api_routes, spec_counts, exit_code, tableVars, discVars>>

\* variant of freshness_check: a fresh document prints an OK line
freshness_check_verbose(spec_file, now, spec_text) ==
    LET last_verified == parse_last_verified_date(spec_text) IN
    IF last_verified.kind = "none" \/ is_stale(now, last_verified.at)
    THEN [lines |-> <<Printed("WARN", spec_file, <<>>, 0, 0)>>, warn |-> 1]
    ELSE [lines |-> <<Printed("OK", spec_file, <<>>, 0, 0)>>, warn |-> 0]

\* the body of `for spec_file in [OVERVIEW, BUSINESS, TECHNICAL]` (lines 268-278)
\* on an existing file: the line printed (if any) and the warnings added
freshness_check(spec_file, now, spec_text) ==
    LET last_verified == parse_last_verified_date(spec_text) IN
    IF last_verified.kind = "none"
    THEN [lines |-> <<Printed("WARN", spec_file, <<>>, 0, 0)>>, warn |-> 1]
    ELSE IF is_stale(now, last_verified.at)
    THEN [lines |-> <<Printed("WARN", spec_file, <<>>, 0, 0)>>, warn |-> 1]
    ELSE [lines |-> <<>>, warn |-> 0]

\* one iteration of the freshness loop
Freshness ==
    /\ pc = "freshness"
    /\ spec_idx <= Len(SpecFiles)
    /\ LET f == read(SpecFiles[spec_idx]) IN
       IF ~f.exists \/ parse_last_verified_date(f.content).kind = "error"
       THEN /\ pc' = "raised"
            /\ UNCHANGED <<out, warnings, spec_idx>>
       ELSE LET r == freshness_check(SpecFiles[spec_idx], today, f.content)
            IN /\ out' = out \o r.lines
               /\ warnings' = warnings + r.warn
               /\ spec_idx' = spec_idx + 1
               /\ pc' = "freshness"
    /\ UNCHANGED <<fs, overview_text, technical_text, lambda_dirs, layer_modules,
                   dynamodb_tables, api_routes, spec_counts, today, exit_code, tableVars, discVars>>

\* return 1 if warnings > 0 else 0 (line 287)
result_code(w) == IF w > 0 THEN 1 ELSE 0

\* lines 280-287: result summary and exit code
Summary ==
    /\ pc = "freshness"
    /\ spec_idx > Len(SpecFiles)
    /\ out' = out \o <<Printed("BLANK", "", <<>>, 0, 0),
                       Printed("RESULT", IF warnings = 0 THEN "All OK" ELSE "warnings",
                               <<>>, warnings, 0)>>
    /\ exit_code' = result_code(warnings)
    /\ pc' = "done"
    /\ UNCHANGED <<fs, warnings, overview_text, technical_text, lambda_dirs,
                   layer_modules, dynamodb_tables, api_routes, spec_counts, today,
                   spec_idx, tableVars, discVars>>

NextMain ==
    \/ ReadOverview
    \/ ReadTechnical
    \/ CountComponents
    \/ CheckLambda
    \/ CheckLayer
    \/ CheckDynamodb
    \/ CheckApi
    \/ Coverage
    \/ Freshness
    \/ Summary

SpecMain == InitMain /\ [][NextMain]_vars

(***************************************************************************)
(* Claims about the drift comparator                                       *)
(***************************************************************************)
Params == fs.params
Categories == <<"Lambda functions", "Shared modules", "DynamoDB tables", "API routes">>

\* what the project holds, read off the way it was built
CodeCount(c) ==
    CASE c = "Lambda functions" -> Cardinality(Params.dirs)
      [] c = "Shared modules" -> Cardinality(Params.mods)
      [] c = "DynamoDB tables" -> Params.tables
      [] c = "API routes" -> Params.api

SpecCount(c) ==
    CASE c = "Lambda functions" -> Len(Params.api_rows) + Len(Params.batch_rows)
      [] c = "Shared modules" -> Len(Params.layer_rows)
      [] c = "DynamoDB tables" -> Params.dyn_rows
      [] c = "API routes" -> Params.routes

Differs(c) == CodeCount(c) # SpecCount(c)

\* the printed lines of one kind
LinesOfKind(kind) == SelectSeq(out, LAMBDA e : e.kind = kind)

LinesAbout(subject) == SelectSeq(out, LAMBDA e : e.subject = subject)

\* the findings of the run that are not OK
NonOkLines == SelectSeq(out, LAMBDA e : e.kind \in {"WARN", "MISSING"})

\* the 'Last verified' date of tracked document i is absent, or older than the
\* threshold at the instant of the run
Absent(i) == Params.dates[i] = ""
Stale(i) ==
    /\ Params.dates[i] \in DOMAIN Calendar
    /\ fs.now - Calendar[Params.dates[i]] * TicksPerDay > ThresholdDays * TicksPerDay

AllExist == \A i \in 1..3 : Params.exists[i]

\* C1: in every completed run the exit code is 1 iff the warning count is
\* greater than 0, and the count is the number of non-OK findings: one per
\* category whose counts differ, one per name reported missing, one per
\* document whose date is absent or stale; at every moment of the run the
\* count is the number of non-OK findings printed so far.
C1_ExitCodeIffWarnings ==
    /\ warnings = Len(NonOkLines)
    /\ pc = "done" =>
        /\ exit_code \in {0, 1}
        /\ (exit_code = 1 <=> warnings > 0)
        /\ warnings =
              Cardinality({k \in 1..4 : Differs(Categories[k])})
              + Len(LinesOfKind("MISSING"))
              + Cardinality({i \in 1..3 : Absent(i) \/ Stale(i)})

C1_Witness ==
    /\ pc = "done"
    /\ exit_code = 1
    /\ \E k \in 1..4 : Differs(Categories[k])
    /\ \E i \in 1..3 : Stale(i)
    /\ \E i \in 1..3 : Absent(i)
    /\ \E k \in DOMAIN out : out[k].kind = "MISSING"

\* the date of the run and the age in days of the date document i declares
NowDay == Calendar["2026-01-31"]
AgeDays(i) == NowDay - Calendar[Params.dates[i]]

\* document i has been through the freshness check
Checked(i) == pc \in {"freshness", "done"} /\ spec_idx > i

WarnedAbout(i) == \E k \in DOMAIN out : out[k].subject = SpecFiles[i] /\ out[k].kind = "WARN"

\* C4: whatever the instant of the run, a tracked document whose 'Last
\* verified' date is exactly 30 days before now is not warned about, one
\* whose date is 31 days before now gets a WARN, and one without a 'Last
\* verified' line gets a WARN.
C4_FreshnessBoundary ==
    \A i \in 1..3 :
        Checked(i) =>
            /\ (Absent(i) => WarnedAbout(i))
            /\ (Params.dates[i] \in DOMAIN Calendar /\ AgeDays(i) = ThresholdDays
                    => ~WarnedAbout(i))
            /\ (Params.dates[i] \in DOMAIN Calendar /\ AgeDays(i) = ThresholdDays + 1
                    => WarnedAbout(i))

\* the spec texts the coverage check searches, and the names it checks
CombinedSpec == join_nl(<<read(TECHNICAL).content, read(OVERVIEW).content>>)
ReportedMissing(name) == \E k \in DOMAIN out : out[k].kind = "MISSING" /\ out[k].name = name

\* C5: a code-discovered name is reported missing iff the name minus its
\* trailing file extension is not a literal substring of the concatenated
\* spec texts (a match inside a longer word counts as present).
C5_MissingIffStemAbsent ==
    pc \in {"freshness", "done"} =>
        \A name \in Params.dirs \cup Params.mods :
            ReportedMissing(name) <=> ~contains(CombinedSpec, Stem(name))

\* the number of the categories checked before position `here` of main
ChecksDone ==
    CASE pc = "check_lambda" -> 0
      [] pc = "check_layer" -> 1
      [] pc = "check_dynamodb" -> 2
      [] pc = "check_api" -> 3
      [] pc \in {"coverage", "freshness", "done"} -> 4
      [] OTHER -> 0

\* C6: each of the four count checks reports OK when the code-side count
\* equals the spec-side count and WARN otherwise; a WARN raises the warning
\* count by exactly one, an OK leaves it unchanged; a run with a WARN ends
\* with exit code 1 (one directory against one row: OK 1 = 1; two
\* aws_dynamodb_table resources against three rows: WARN 2 != 3, exit 1).
C6_CountChecks ==
    /\ \A k \in 1..4 :
        LET c == Categories[k] IN
        IF k <= ChecksDone /\ pc # "raised"
        THEN LinesAbout(c) =
                <<Printed(IF Differs(c) THEN "WARN" ELSE "OK", c, <<>>,
                          CodeCount(c), SpecCount(c))>>
        ELSE pc # "raised" => LinesAbout(c) = <<>>
    /\ pc \in {"check_lambda", "check_layer", "check_dynamodb", "check_api", "coverage"}
        => warnings = Cardinality({k \in 1..ChecksDone : Differs(Categories[k])})
    /\ pc = "done" /\ (\E k \in 1..4 : Differs(Categories[k])) => exit_code = 1

C6_Witness ==
    /\ pc = "done"
    /\ exit_code = 1
    /\ LinesAbout("Lambda functions") = <<Printed("OK", "Lambda functions", <<>>, 1, 1)>>
    /\ LinesAbout("DynamoDB tables") = <<Printed("WARN", "DynamoDB tables", <<>>, 2, 3)>>
    /\ Cardinality(Params.dirs) = 1
    /\ Params.tables = 2
    /\ Params.dyn_rows = 3

\* C7: in a completed run every check has printed its own OK or WARN line:
\* the four count categories, the name-coverage check and the freshness check
\* of each tracked document, also when the check passes.
C7_EveryCheckPrints ==
    pc = "done" =>
        /\ \A k \in 1..4 :
            \E e \in Range(LinesAbout(Categories[k])) : e.kind \in {"OK", "WARN"}
        /\ \E e \in Range(out) :
            e.kind \in {"OK", "WARN", "MISSING"}
            /\ e.subject \notin Range(Categories) \cup Range(SpecFiles)
        /\ \A i \in 1..3 :
            \E e \in Range(LinesAbout(SpecFiles[i])) : e.kind \in {"OK", "WARN"}

\* C7 (amended): each count category prints exactly one OK or WARN line as
\* soon as it is checked; the name-coverage check prints a header and one
\* line per missing name, and nothing when no name is missing; the freshness
\* check prints one WARN line for a document whose date is absent or stale
\* and no line for a document whose date is present and fresh.
C7_LinesPrinted ==
    /\ \A k \in 1..4 :
        (k <= ChecksDone /\ pc # "raised") =>
            /\ Len(LinesAbout(Categories[k])) = 1
            /\ out[k + 1].subject = Categories[k]
            /\ out[k + 1].kind \in {"OK", "WARN"}
    /\ pc \in {"freshness", "done"} =>
        /\ Len(LinesOfKind("MISSING_HEADER"))
             = (IF \E e \in Range(out) : e.kind = "MISSING" THEN 1 ELSE 0)
        /\ \A name \in Range(lambda_dirs) \cup Range(layer_modules) :
             ~contains(CombinedSpec, search_name(name)) <=> ReportedMissing(name)
        /\ Len(LinesOfKind("MISSING"))
             = Cardinality({name \in Range(lambda_dirs) \cup Range(layer_modules) :
                               ReportedMissing(name)})
    /\ \A i \in 1..3 :
        Checked(i) =>
            LinesAbout(SpecFiles[i]) =
                (IF Absent(i) \/ Stale(i)
                 THEN <<Printed("WARN", SpecFiles[i], <<>>, 0, 0)>>
                 ELSE <<>>)

C7_Witness ==
    /\ pc = "done"
    /\ exit_code = 1
    /\ \E i \in 1..3 : ~Absent(i) /\ ~Stale(i) /\ LinesAbout(SpecFiles[i]) = <<>>
    /\ \E i \in 1..3 : Stale(i)
    /\ \E k \in 1..4 : ~Differs(Categories[k])

\* C8: when one of the three required documents does not exist the run
\* aborts with the read error: main returns no exit code, prints no Result
\* line, and the missing document yields neither a WARN line nor a warning.
C8_MissingDocumentIsFatal ==
    ~AllExist =>
        /\ pc # "done"
        /\ exit_code = -1
        /\ \A e \in Range(out) : e.kind # "RESULT"
        /\ \A i \in 1..3 : ~Params.exists[i] => LinesAbout(SpecFiles[i]) = <<>>
        /\ warnings = Len(NonOkLines)
        /\ (~Params.exists[1] => pc \in {"main", "raised"})
        /\ (~Params.exists[3] => pc \in {"main", "read_technical", "raised"})
        /\ \A i \in 1..3 : ~Params.exists[i] => ~Checked(i)

C8_Witness ==
    /\ pc = "raised"
    /\ Params.exists = <<TRUE, FALSE, TRUE>>
    /\ spec_idx = 2
    /\ warnings > 0
    /\ \E e \in Range(out) : e.kind = "WARN" /\ e.subject = "DynamoDB tables"

(***************************************************************************)
(* Discovery: _extract_headings (discover_project.py, lines 51-65)         *)
(***************************************************************************)
MaxText == 6       \* characters of the Markdown text

\* variant of lstrip("#"): removes one '#' only
lstrip_one_hash(s) == IF s # <<>> /\ Head(s) = "#" THEN Tail(s) ELSE s

\* str.lstrip("#")
RECURSIVE lstrip_hash(_)
lstrip_hash(s) ==
    IF s # <<>> /\ Head(s) = "#" THEN lstrip_hash(Tail(s)) ELSE s

\* the body of `for line in text.splitlines()` (lines 59-64): the entries appended
heading_of(line) ==
    LET stripped == strip(line) IN
    IF startswith(stripped, <<"#">>)
    THEN LET level == Len(stripped) - Len(lstrip_hash(stripped))
             title == strip(lstrip_hash(stripped))
         IN IF title # <<>> THEN <<[level |-> level, title |-> title]>> ELSE <<>>
    ELSE <<>>

MdChars == {"#", " ", "a", "\n"}

InitHeadings ==
    /\ TableIdle
    /\ MainIdle
    /\ pc = "extract"
    /\ md_file \in {[readable |-> TRUE, content |-> t] : t \in SeqsUpTo(MdChars, MaxText)}
                   \cup {[readable |-> FALSE, content |-> <<>>]}
    /\ hpos = 0
    /\ headings = <<>>
    /\ calls = 0
    /\ prev_headings = <<>>
    /\ tree = {}
    /\ spos = 0
    /\ source_dirs = <<>>
    /\ root = <<>>
    /\ lang_counts = <<>>

\* lines 53-57: headings = [], read the text; an unreadable file returns []
ExtractStart ==
    /\ pc = "extract"
    /\ headings' = <<>>
    /\ calls' = calls + 1
    /\ IF md_file.readable
       THEN hpos' = 1 /\ pc' = "lines"
       ELSE hpos' = hpos /\ pc' = "extracted"
    /\ UNCHANGED <<md_file, prev_headings, tree, spos, source_dirs,
                   root, lang_counts, tableVars, mainVars>>

\* lines 58-64: one line of the text
ExtractLine ==
    /\ pc = "lines"
    /\ hpos <= Len(splitlines(md_file.content))
    /\ headings' = headings \o heading_of(splitlines(md_file.content)[hpos])
    /\ hpos' = hpos + 1
    /\ UNCHANGED <<pc, md_file, calls, prev_headings, tree, spos, source_dirs,
                   root, lang_counts, tableVars, mainVars>>

\* line 65: return headings
ExtractReturn ==
    /\ pc = "lines"
    /\ hpos > Len(splitlines(md_file.content))
    /\ pc' = "extracted"
    /\ UNCHANGED <<md_file, hpos, headings, calls, prev_headings, tree, spos,
                   source_dirs, root, lang_counts, tableVars, mainVars>>

\* the caller keeps the result and calls _extract_headings on the file again
ExtractAgain ==
    /\ pc = "extracted"
    /\ calls < 2
    /\ prev_headings' = headings
    /\ pc' = "extract"
    /\ UNCHANGED <<md_file, hpos, headings, calls, tree, spos, source_dirs,
                   root, lang_counts, tableVars, mainVars>>

NextHeadings == ExtractStart \/ ExtractLine \/ ExtractReturn \/ ExtractAgain

SpecHeadings == InitHeadings /\ [][NextHeadings]_vars

(***************************************************************************)
(* Claims about _extract_headings                                          *)
(***************************************************************************)
\* the line without its leading and trailing whitespace
Trimmed(line) ==
    LET inked == {k \in DOMAIN line : line[k] # " "} IN
    IF inked = {} THEN <<>>
    ELSE SubSeq(line, CHOOSE a \in inked : \A k \in inked : a <= k,
                      CHOOSE z \in inked : \A k \in inked : k <= z)

\* the number of '#' characters the line starts with
HashRun(t) ==
    CHOOSE n \in 0..Len(t) :
        /\ \A k \in 1..n : t[k] = "#"
        /\ (n < Len(t) => t[n + 1] # "#")

\* the text after the leading '#' run, trimmed
TitleText(t) == Trimmed(SubSeq(t, HashRun(t) + 1, Len(t)))

IsHeadingLine(line) == HashRun(Trimmed(line)) >= 1 /\ TitleText(Trimmed(line)) # <<>>

\* the lines of ls among the first n that are headings, in document order
HeadingLines(ls, n) == SelectSeq(SubSeq(ls, 1, n), IsHeadingLine)

\* C9: _extract_headings returns, in document order, exactly one entry per
\* line whose trimmed content starts with '#' and has non-empty trimmed text
\* after the '#' run; the level is the number of leading '#' (>= 1), the
\* title the remaining trimmed text; a second call on the same input returns
\* the same sequence.
C9_HeadingsExtracted ==
    /\ pc \in {"lines", "extracted"} /\ md_file.readable =>
        LET ls == splitlines(md_file.content)
            hs == HeadingLines(ls, hpos - 1)
        IN /\ Len(headings) = Len(hs)
           /\ \A k \in DOMAIN hs :
                /\ headings[k].level = HashRun(Trimmed(hs[k]))
                /\ headings[k].level >= 1
                /\ headings[k].title = TitleText(Trimmed(hs[k]))
    /\ pc = "extracted" /\ calls = 2 => headings = prev_headings

C9_Witness ==
    /\ pc = "extracted"
    /\ calls = 2
    /\ Len(headings) = 2
    /\ headings[1].level = 2
    /\ Len(splitlines(md_file.content)) = 2

(***************************************************************************)
(* Discovery: discover_source_code (discover_project.py, lines 68-116)     *)
(* A file name is a sequence of tokens, its extension (".py") one token;   *)
(* a path is a sequence of names; the tree is the set of the files and     *)
(* directories below root, each [path, is_dir].                            *)
(***************************************************************************)
MaxTop == 3        \* top-level directories the root may hold

\* lines 70-84: the keys of language_extensions, in order
language_extensions ==
    <<".py", ".js", ".ts", ".tsx", ".jsx", ".go", ".rs", ".java", ".rb", ".php",
      ".cs", ".swift", ".kt">>

\* lines 70-84: the values of language_extensions, in the order of the keys
language_labels ==
    <<"Python", "JavaScript", "TypeScript", "TypeScript (React)", "JavaScript (React)",
      "Go", "Rust", "Java", "Ruby", "PHP", "C#", "Swift", "Kotlin">>

\* language_extensions[ext]
language_of(ext) ==
    language_labels[CHOOSE k \in DOMAIN language_extensions : language_extensions[k] = ext]

\* lines 85-90
ignore_dirs ==
    {<<".", "git">>, <<"node_modules">>, <<"__pycache__">>, <<".", "venv">>, <<"venv">>,
     <<".", "tox">>, <<".", "mypy_cache">>, <<".", "pytest_cache">>, <<"dist">>,
     <<"build">>, <<".", "next">>, <<".", "nuxt">>, <<"target">>, <<"vendor">>,
     <<".", "terraform">>, <<"coverage">>, <<".", "coverage">>, <<"htmlcov">>,
     <<"egg-info">>}

\* d.name.startswith(".")
is_dotname(name) == name # <<>> /\ (Head(name) = "." \/ Head(name) \in Range(language_extensions))

Last(seq) == seq[Len(seq)]

\* d.rglob(f"*{ext}"): every path below d whose name ends with ext
rglob(d, ext) ==
    {n \in tree : /\ Len(n.path) > 1
                  /\ n.path[1] = d
                  /\ endswith(Last(n.path), <<ext>>)}

\* lines 102-106
has_source(d) == \E k \in DOMAIN language_extensions : rglob(d, language_extensions[k]) # {}

\* sorted(root.iterdir())
root_entries == sorted({n.path[1] : n \in {x \in tree : Len(x.path) = 1}})

is_dir(path) == \E n \in tree : n.path = path /\ n.is_dir

\* f.suffix, "" when the name has no extension
suffix(name) ==
    IF Len(name) > 1 /\ Last(name) \in Range(language_extensions) \cup {".txt"}
    THEN Last(name) ELSE ""

\* f.parts of a path found by root.rglob("*"): the parts of root, then the
\* path below it
parts(f) == root \o f.path

\* lang_counts.get(lang, 0)
get(counts, lang) == IF lang \in DOMAIN counts THEN counts[lang] ELSE 0

\* lines 111-116: the body of the loop for one path f
count_file(counts, f) ==
    IF \E k \in DOMAIN parts(f) : parts(f)[k] \in ignore_dirs
    THEN counts
    ELSE IF ~f.is_dir /\ suffix(Last(f.path)) \in Range(language_extensions)
    THEN LET lang == language_of(suffix(Last(f.path))) IN
         [l \in DOMAIN counts \cup {lang} |->
             IF l = lang THEN get(counts, lang) + 1 ELSE counts[l]]
    ELSE counts

\* lines 110-116: the loop over root.rglob("*"), in the order of the listing
RECURSIVE count_languages(_, _)
count_languages(paths, counts) ==
    IF paths = {} THEN counts
    ELSE LET f == CHOOSE x \in paths : TRUE IN
         count_languages(paths \ {f}, count_file(counts, f))

\* line 333: Path(sys.argv[1]).resolve(), the absolute path of the project
Roots ==
    {<< <<"/">>, <<"srv">>, <<"proj">> >>,
     << <<"/">>, <<"build">>, <<"proj">> >>,
     << <<"/">>, <<"srv">>, <<"vendor">> >>}

\* the contents a top-level directory may have, as paths below it
Contents ==
    {{},
     {[path |-> << <<"m", ".py">> >>, is_dir |-> FALSE]},
     {[path |-> << <<"sub">> >>, is_dir |-> TRUE],
      [path |-> << <<"sub">>, <<"m", ".js">> >>, is_dir |-> FALSE]},
     {[path |-> << <<"s", ".py">> >>, is_dir |-> TRUE]},
     {[path |-> << <<"r", ".txt">> >>, is_dir |-> FALSE]},
     {[path |-> << <<"node_modules">> >>, is_dir |-> TRUE],
      [path |-> << <<"node_modules">>, <<"m", ".js">> >>, is_dir |-> FALSE]}}

TopNames == << <<"app">>, <<"build">>, <<".", "git">>, <<"lib">>, <<"main", ".py">> >>

\* the directory `name` at the top level with contents c
Subtree(name, c) ==
    {[path |-> <<name>>, is_dir |-> TRUE]}
    \cup {[path |-> <<name>> \o n.path, is_dir |-> n.is_dir] : n \in c}

\* a top-level name is absent, a regular file, or a directory with contents
Shapes ==
    {[kind |-> "absent", holds |-> {}], [kind |-> "file", holds |-> {}]}
    \cup {[kind |-> "dir", holds |-> c] : c \in Contents}

Place(name, shape) ==
    IF shape.kind = "absent" THEN {}
    ELSE IF shape.kind = "file" THEN {[path |-> <<name>>, is_dir |-> FALSE]}
    ELSE Subtree(name, shape.holds)

RECURSIVE Trees(_)
Trees(n) ==
    IF n = 0 THEN {{}}
    ELSE {t \cup Place(TopNames[n], shape) : t \in Trees(n - 1), shape \in Shapes}

InitScan ==
    /\ TableIdle
    /\ MainIdle
    /\ pc = "scan_top"
    /\ md_file = <<>>
    /\ hpos = 0
    /\ headings = <<>>
    /\ calls = 0
    /\ prev_headings = <<>>
    /\ tree \in Trees(MaxTop)
    /\ spos = 1
    /\ source_dirs = <<>>
    /\ root \in Roots
    /\ lang_counts = <<>>

\* lines 98-108: one entry of sorted(root.iterdir())
ScanTop ==
    /\ pc = "scan_top"
    /\ spos <= Len(root_entries)
    /\ LET d == root_entries[spos] IN
       source_dirs' =
           IF ~is_dir(<<d>>) \/ is_dotname(d) \/ d \in ignore_dirs
           THEN source_dirs
           ELSE IF has_source(d) THEN Append(source_dirs, d) ELSE source_dirs
    /\ spos' = spos + 1
    /\ UNCHANGED <<pc, tree, md_file, hpos, headings, calls, prev_headings,
                   root, lang_counts, tableVars, mainVars>>

\* the loop of lines 98-108 is over
ScanTopEnd ==
    /\ pc = "scan_top"
    /\ spos > Len(root_entries)
    /\ pc' = "count_languages"
    /\ UNCHANGED <<tree, spos, source_dirs, md_file, hpos, headings, calls,
                   prev_headings, root, lang_counts, tableVars, mainVars>>

\* lines 110-116: count the files by language
CountLanguages ==
    /\ pc = "count_languages"
    /\ lang_counts' = count_languages(tree, lang_counts)
    /\ pc' = "entry_points"
    /\ UNCHANGED <<tree, spos, source_dirs, root, md_file, hpos, headings, calls,
                   prev_headings, tableVars, mainVars>>

NextScan == ScanTop \/ ScanTopEnd \/ CountLanguages

SpecScan == InitScan /\ [][NextScan]_vars

(***************************************************************************)
(* Claims about discover_source_code                                       *)
(***************************************************************************)
\* Path.suffix of a name, "" when it has none
Suffix(name) ==
    IF Len(name) > 1 /\ Last(name) \in Range(language_extensions) \cup {".txt"}
    THEN Last(name) ELSE ""

\* a regular file with a recognized extension lies somewhere below directory d
HoldsSourceFile(d) ==
    \E n \in tree : /\ Len(n.path) > 1
                    /\ n.path[1] = d
                    /\ ~n.is_dir
                    /\ Suffix(Last(n.path)) \in Range(language_extensions)

\* C10: source_directories is exactly the set of the top-level directories of
\* the root that are not dot-directories, are not in the ignore set and hold,
\* at any depth, a regular file with a recognized extension; a directory
\* holding only a sub-directory named like a source file is not listed.
C10_SourceDirectories ==
    pc = "count_languages" =>
        Range(source_dirs) =
            {d \in {n.path[1] : n \in {x \in tree : Len(x.path) = 1 /\ x.is_dir}} :
                /\ ~is_dotname(d)
                /\ d \notin ignore_dirs
                /\ HoldsSourceFile(d)}

\* the files the language count is about: the regular files below the root
\* with a recognized extension and no ignored directory on the path below
\* the root
CountedFiles(label) ==
    {n \in tree :
        /\ ~n.is_dir
        /\ Suffix(Last(n.path)) \in Range(language_extensions)
        /\ language_of(Suffix(Last(n.path))) = label
        /\ \A k \in 1..(Len(n.path) - 1) : n.path[k] \notin ignore_dirs}

\* C12: for every tree and every language label, the language_file_counts
\* entry (0 when the label has none) is the number of regular files below
\* the root with an extension of that label and no ignored directory on
\* their path below the root, whatever the root's own path is.
C12_LanguageCounts ==
    pc = "entry_points" =>
        \A label \in Range(language_labels) :
            get(lang_counts, label) = Cardinality(CountedFiles(label))

====
